---- MODULE Spec2Model ----
(***************************************************************************)
(* Data-source resolution layer of the multi-chain explorer:               *)
(*   - BlockchainAPI.getAvailableRpcUrl and its rpcCache  (services/api.ts)*)
(*   - the keyed-API / RPC source selection of the EVM read operations     *)
(*   - the speculative multi-chain lookup of Home.handleSearch             *)
(*   - the values the transaction and address adapters return              *)
(* Indices are 0-based as in the TypeScript source; At(seq, i) reads a     *)
(* JavaScript array.  Confidences are kept as integer hundredths.          *)
(***************************************************************************)
EXTENDS Integers, Sequences, FiniteSets, TLC

\* number of concurrently running callers of getAvailableRpcUrl
NumProcs == 2
Procs == 1..NumProcs

(***************************************************************************)
(* Configuration: config/rpc.ts                                            *)
(***************************************************************************)
\* chain ids handed to the resolver; "bitcoin" has no entry in
\* FREE_RPC_ENDPOINTS, "unlisted" stands for a pool configured as [] (the
\* second half of the guard of getAvailableRpcUrl)
ChainIds == {"linea", "canto", "bitcoin", "unlisted"}

FREE_RPC_ENDPOINTS ==
    [c \in {"ethereum", "linea", "zksync", "canto", "unlisted"} |->
        CASE c = "ethereum" -> << "https://eth.llamarpc.com",
                                  "https://rpc.ankr.com/eth",
                                  "https://ethereum.publicnode.com",
                                  "https://eth.drpc.org",
                                  "https://1rpc.io/eth" >>
          [] c = "linea"    -> << "https://rpc.linea.build",
                                  "https://linea.drpc.org",
                                  "https://1rpc.io/linea" >>
          [] c = "zksync"   -> << "https://mainnet.era.zksync.io",
                                  "https://zksync.drpc.org",
                                  "https://1rpc.io/zksync" >>
          [] c = "canto"    -> << "https://canto.gravitychain.io" >>
          [] c = "unlisted" -> << >> ]

Undefined == "undefined"
NoResult == "none"

\* JavaScript array read: arr[index], undefined when out of range
AtOneBased(arr, index) ==
    IF index \in 1..Len(arr) THEN arr[index] ELSE Undefined
At(arr, index) ==
    IF index \in 0..(Len(arr) - 1) THEN arr[index + 1] ELSE Undefined

\* api.ts:55-56   !endpoints || endpoints.length === 0
HasEndpointsAnyLength(chainId) == chainId \in DOMAIN FREE_RPC_ENDPOINTS
HasEndpoints(chainId) ==
    /\ chainId \in DOMAIN FREE_RPC_ENDPOINTS
    /\ Len(FREE_RPC_ENDPOINTS[chainId]) # 0

\* Map.get: <<>> for undefined, <<v>> for a stored value
CacheGet(cache, chainId) ==
    IF chainId \in DOMAIN cache THEN << cache[chainId] >> ELSE << >>

\* api.ts:61   this.rpcCache.get(chainId) || 0
StartIndexStale(cache, chainId) == 0
StartIndex(cache, chainId) ==
    IF CacheGet(cache, chainId) = << >> THEN 0 ELSE CacheGet(cache, chainId)[1]

\* api.ts:65   (startIndex + i) % endpoints.length
ProbeIndexNoWrap(startIndex, i, n) == startIndex + i
ProbeIndex(startIndex, i, n) == (startIndex + i) % n

\* api.ts:64   i < endpoints.length, tested after the i++ of a failed probe
MoreToProbeButLast(i, n) == i + 2 < n
MoreToProbe(i, n) == i + 1 < n

\* api.ts:70   this.rpcCache.set(chainId, index)   (i is the loop counter)
CacheSetLoopCounter(cache, chainId, index, i) == (chainId :> i) @@ cache
CacheSet(cache, chainId, index, i) == (chainId :> index) @@ cache

\* api.ts:76   return endpoints[0]
ExhaustedResultAtStart(endpoints, startIndex) == At(endpoints, startIndex)
ExhaustedResult(endpoints, startIndex) == At(endpoints, 0)

VARIABLES
    rpcCache,   \* BlockchainAPI.rpcCache: chain id -> index (a Map)
    rs,         \* per caller: the frame of its getAvailableRpcUrl call
    lastGood    \* history: per chain, <<index>> of the endpoint whose probe
                \* succeeded most recently (<<>> when none did yet)

resolverVars == << rpcCache, rs, lastGood >>

IdleFrame ==
    [ pc |-> "idle", chainId |-> "", startIndex |-> 0, i |-> 0,
      probed |-> << >>, oks |-> << >>, result |-> NoResult,
      after |-> << >>, hadCache |-> FALSE, wrote |-> << >> ]
\* after:    history, lastGood of the chain when the call began
\* hadCache: history, whether the chain had a cache entry when the call began
\* probed, oks: history, the indices probed so far and the answers
\* wrote:    history, the cache entry of the chain right after this call's set

\* api.ts:54-68: the guard, the cache read and the loop entry; the first
\* probe is sent before the function yields.  A loop that has nothing to
\* iterate over falls through to line 76 at once.
Begin(p, chainId) ==
    /\ rs[p].pc = "idle"
    /\ LET f == [IdleFrame EXCEPT !.chainId = chainId,
                                  !.after = lastGood[chainId],
                                  !.hadCache = chainId \in DOMAIN rpcCache]
       IN  IF ~HasEndpoints(chainId)
             THEN rs' = [rs EXCEPT ![p] = [f EXCEPT !.pc = "thrown"]]
             ELSE LET endpoints == FREE_RPC_ENDPOINTS[chainId]
                      startIndex == StartIndex(rpcCache, chainId)
                  IN  IF 0 < Len(endpoints)
                        THEN rs' = [rs EXCEPT ![p] =
                                      [f EXCEPT !.pc = "probing",
                                                !.startIndex = startIndex]]
                        ELSE rs' = [rs EXCEPT ![p] =
                                      [f EXCEPT !.pc = "returned",
                                                !.startIndex = startIndex,
                                                !.result = ExhaustedResult(endpoints, startIndex)]]
    /\ UNCHANGED << rpcCache, lastGood >>

\* api.ts:64-76 and rpc.ts:280-297: the answer of testRpcEndpoint for the
\* endpoint under test arrives (isAvailable); on success the index is cached
\* and the endpoint returned, otherwise the loop goes on or falls through to
\* the return of line 76
ProbeResult(p, isAvailable) ==
    /\ rs[p].pc = "probing"
    /\ LET f == rs[p]
           endpoints == FREE_RPC_ENDPOINTS[f.chainId]
           index == ProbeIndex(f.startIndex, f.i, Len(endpoints))
           g == [f EXCEPT !.probed = Append(f.probed, index),
                          !.oks = Append(f.oks, isAvailable)]
       IN  IF isAvailable
             THEN /\ rpcCache' = CacheSet(rpcCache, f.chainId, index, f.i)
                  /\ lastGood' = [lastGood EXCEPT ![f.chainId] = << index >>]
                  /\ rs' = [rs EXCEPT ![p] =
                              [g EXCEPT !.pc = "returned",
                                        !.result = At(endpoints, index),
                                        !.wrote = CacheGet(rpcCache', f.chainId)]]
             ELSE /\ UNCHANGED << rpcCache, lastGood >>
                  /\ IF MoreToProbe(f.i, Len(endpoints))
                       THEN rs' = [rs EXCEPT ![p] = [g EXCEPT !.i = f.i + 1]]
                       ELSE rs' = [rs EXCEPT ![p] =
                                     [g EXCEPT !.i = f.i + 1, !.pc = "returned",
                                               !.result = ExhaustedResult(endpoints, f.startIndex)]]

\* the timeout option of an outbound call: << ms >>, or << >> when the call
\* is made without one
NoTimeout == << >>

\* rpc.ts:282-290   fetch(url, { method, headers, body }): no signal, no
\* timeout
ProbeTimeout == NoTimeout

\* the endpoint under test accepts the request and never answers.  A call
\* with a timeout is rejected when it expires (testRpcEndpoint's catch then
\* returns false); a call without one never settles, and the caller that
\* awaits it is left where it is for good: pc "hung".
ProbeSilent(p) ==
    /\ rs[p].pc = "probing"
    /\ IF ProbeTimeout # NoTimeout
         THEN ProbeResult(p, FALSE)
         ELSE /\ rs' = [rs EXCEPT ![p].pc = "hung"]
              /\ UNCHANGED << rpcCache, lastGood >>

\* the awaiting caller takes the URL (or the error) and the frame is gone
FinishEvicts(p) ==
    /\ rs[p].pc \in {"returned", "thrown"}
    /\ rs' = [rs EXCEPT ![p] = IdleFrame]
    /\ rpcCache' = [c \in DOMAIN rpcCache \ {rs[p].chainId} |-> rpcCache[c]]
    /\ UNCHANGED lastGood
Finish(p) ==
    /\ rs[p].pc \in {"returned", "thrown"}
    /\ rs' = [rs EXCEPT ![p] = IdleFrame]
    /\ UNCHANGED << rpcCache, lastGood >>

(***************************************************************************)
(* Source selection of the read operations: services/api.ts                *)
(***************************************************************************)
\* chains the read operations are invoked on
OpChains == {"ethereum", "linea", "zksync", "canto"}
AllChainIds == ChainIds \cup OpChains

\* config/rpc.ts:197-264 (requiresKey of the entries used here); "canto" has
\* no entry
FREE_API_ENDPOINTS ==
    [c \in {"ethereum", "linea", "zksync"} |->
        [requiresKey |-> c \in {"ethereum", "linea"}]]

\* values of VITE_ETHERSCAN_API_KEY: unset, blank, set
Keys == {"", " ", "KEY"}

\* api.ts:47-49   API_KEYS[chainId] || ''
getApiKey(keys, chainId) ==
    IF chainId \in DOMAIN keys THEN keys[chainId] ELSE ""

\* apiConfig?.requiresKey
RequiresKey(chainId) ==
    /\ chainId \in DOMAIN FREE_API_ENDPOINTS
    /\ FREE_API_ENDPOINTS[chainId].requiresKey

\* api.ts:169, 347, 966   !chain.apiUrl || !apiConfig?.requiresKey || !apiKey
UseRpcDirectlyKeyInverted(hasApiUrl, chainId, apiKey) ==
    ~hasApiUrl \/ ~RequiresKey(chainId) \/ apiKey # ""
UseRpcDirectly(hasApiUrl, chainId, apiKey) ==
    ~hasApiUrl \/ ~RequiresKey(chainId) \/ apiKey = ""

EvmKinds == {"address", "transaction", "block"}
OpKinds == EvmKinds \cup {"token"}

\* what an upstream answers: a payload with the result, a payload without
\* the top-level result, an explicit error payload (status '0' with a
\* message other than OK, or data.error), or no answer (transport error,
\* timeout)
Responses == {"ok", "missing", "error", "transport"}

\* does the keyed-API variant throw on this answer?
\*   address     api.ts:210-251   token  api.ts:1087-1108
\*   transaction api.ts:428-456   block  api.ts:995-1013
ApiThrows(kind, resp) ==
    IF kind \in {"address", "token"}
      THEN resp \in {"transport", "error"}
      ELSE resp \in {"transport", "error", "missing"}

\* does the RPC-native variant throw on this answer?
\*   address     api.ts:172-179, 269-276 (parseInt of a missing result is NaN)
\*   transaction api.ts:352-374, 535-557   block api.ts:969-977, 1028-1036
RpcThrows(kind, resp) ==
    IF kind = "address"
      THEN resp = "transport"
      ELSE resp \in {"transport", "error", "missing"}

\* api.ts:154-162, 322-340, 950-958: the dispatch on chain.id.  These
\* operations are one request to a fixed URL (api.ts:291-320, 610-617,
\* 787-883, 1053-1078): no key test, no pool, no second source
FixedUrl(kind, chain) ==
    \/ kind = "address" /\ chain \in {"bitcoin", "solana"}
    \/ kind = "transaction" /\ chain \in {"bitcoin", "tron", "cosmos"}
    \/ kind = "block" /\ chain \in {"bitcoin", "solana"}

\* the fixed-URL operations invoked here
FixedInputs ==
    { << "address", "bitcoin" >>, << "address", "solana" >>,
      << "transaction", "bitcoin" >>, << "transaction", "tron" >> }

\* does the fixed-URL variant throw on this answer?
\*   api.ts:293-303, 307-319   a property of the missing object is read
\*   api.ts:797-799            'Transaction not found'
\*   api.ts:611-616            the payload is spread into the result as it is
DirectThrows(kind, chain, resp) ==
    IF kind = "transaction" /\ chain = "bitcoin"
      THEN resp \in {"transport", "error"}
      ELSE resp # "ok"

\* the timeout option of the request of a step
\*   keyed API   api.ts:217, 229, 241, 436, 1003 (10000); none at 1088-1096
\*   RPC         api.ts:177, 274, 357, 540, 974, 1033 (10000)
\*   fixed URL   api.ts:791, 842 (15000); none at 293-294, 307, 611
CallTimeout(kind, chain, step) ==
    CASE step = "api" -> IF kind = "token" THEN NoTimeout ELSE << 10000 >>
      [] step = "rpc" -> << 10000 >>
      [] step = "direct" -> IF chain \in {"tron", "cosmos"}
                              THEN << 15000 >>
                              ELSE NoTimeout

NoError == [src |-> "none", why |-> "none"]

\* api.ts:286, 605, 1048   `...: ${error.message || error}` in the inner
\* catch (rpcError) of the fallback: error is the one caught by the outer catch
FallbackCarriedLast(apiError, rpcError) == rpcError
FallbackCarried(apiError, rpcError) == apiError

\* the catch of the keyed-API try block: getTokenInfo rethrows
\* (api.ts:1116-1118); the EVM operations fall back to the RPC variant
\* whatever was thrown (api.ts:265-268, 530-533, 1024-1027), the
\* 'Transaction not found' of api.ts:455 and the rejection of api.ts:250
\* included
FallsBackUnlessNotFound(kind, e) == kind # "token" /\ e.why # "missing"
FallsBack(kind, e) == kind # "token"

\* api.ts:203-205, 285-287, 421-423, 604-606, 988-990, 1047-1049: the catch
\* around the RPC-native variant throws; nothing is sent again
RpcFailedResend(o, e) ==
    [o EXCEPT !.rpcError = e, !.trace = Append(o.trace, "rpc")]
RpcFailed(o, e) ==
    [o EXCEPT !.pc = "done", !.outcome = "thrown", !.rpcError = e,
              !.carried = IF o.apiError = NoError
                            THEN e
                            ELSE FallbackCarried(o.apiError, e)]

\* api.ts:194-201, 278-284, 399-420, 582-603, 979-987, 1038-1046: the RPC
\* variant returns the plain value; no member of it tells of an API error
\* caught before
RpcReturnedFlagged(o, resp) ==
    [o EXCEPT !.pc = "done", !.outcome = "returned", !.via = "rpc",
              !.fromMissing = (resp # "ok"), !.carried = o.apiError]
RpcReturned(o, resp) ==
    [o EXCEPT !.pc = "done", !.outcome = "returned", !.via = "rpc",
              !.fromMissing = (resp # "ok")]

VARIABLES
    API_KEYS,   \* api.ts:10-17, fixed when the module is loaded
    op          \* the read operation in progress

opVars == << API_KEYS, op >>

IdleOp ==
    [ pc |-> "idle", kind |-> "none", chain |-> "", hasApiUrl |-> FALSE,
      trace |-> << >>, apiError |-> NoError, rpcError |-> NoError,
      rpcUrl |-> NoResult, outcome |-> "none", via |-> "none",
      carried |-> NoError, fromMissing |-> FALSE ]

Thrown(o, err) == [o EXCEPT !.pc = "done", !.outcome = "thrown", !.carried = err]

\* entry of getAddressInfo / getTransactionInfo / getBlockInfo: the dispatch
\* (api.ts:154-162, 322-340, 950-958) to a fixed-URL variant or to
\* getEVMAddressInfo / getEVMTransactionInfo / getEVMBlockInfo
\* (api.ts:164-171, 342-349, 960-968), and entry of getTokenInfo
\* (api.ts:1080-1086): the fixed URL or the keyed API is called, or
\* getAvailableRpcUrl is entered
OpStart(kind, chain, hasApiUrl) ==
    /\ op.pc = "idle"
    /\ rs[1].pc = "idle"
    /\ LET o == [IdleOp EXCEPT !.kind = kind, !.chain = chain,
                               !.hasApiUrl = hasApiUrl]
           apiKey == getApiKey(API_KEYS, chain)
       IN  IF FixedUrl(kind, chain)
             THEN /\ op' = [o EXCEPT !.pc = "direct", !.trace = << "direct" >>]
                  /\ UNCHANGED resolverVars
           ELSE IF kind = "token"
             THEN /\ op' = IF ~hasApiUrl
                             THEN Thrown(o, [src |-> "config", why |-> "no apiUrl"])
                             ELSE [o EXCEPT !.pc = "api", !.trace = << "api" >>]
                  /\ UNCHANGED resolverVars
             ELSE IF UseRpcDirectly(hasApiUrl, chain, apiKey)
                    THEN /\ op' = [o EXCEPT !.pc = "resolving",
                                            !.trace = << "resolve" >>]
                         /\ Begin(1, chain)
                    ELSE /\ op' = [o EXCEPT !.pc = "api", !.trace = << "api" >>]
                         /\ UNCHANGED resolverVars
    /\ UNCHANGED API_KEYS

\* the keyed API answered (or timed out): return the normalized result, or
\* enter the catch: getTokenInfo rethrows (api.ts:1116-1118), the EVM
\* operations fall back (api.ts:265-268, 530-533, 1024-1027)
ApiResponse(resp) ==
    /\ op.pc = "api"
    /\ IF ~ApiThrows(op.kind, resp)
         THEN /\ op' = [op EXCEPT !.pc = "done", !.outcome = "returned",
                                  !.via = "api",
                                  !.fromMissing = (resp = "missing")]
              /\ UNCHANGED resolverVars
         ELSE LET e == [src |-> "api", why |-> resp]
              IN  IF ~FallsBack(op.kind, e)
                    THEN /\ op' = Thrown([op EXCEPT !.apiError = e], e)
                         /\ UNCHANGED resolverVars
                    ELSE /\ op' = [op EXCEPT !.pc = "resolving", !.apiError = e,
                                             !.trace = Append(op.trace, "resolve")]
                         /\ Begin(1, op.chain)
    /\ UNCHANGED API_KEYS

\* a probe of the operation's getAvailableRpcUrl call is answered
OpProbe(isAvailable) ==
    /\ op.pc = "resolving"
    /\ ProbeResult(1, isAvailable)
    /\ UNCHANGED opVars

\* getAvailableRpcUrl settled: on a URL the RPC-native call is posted to it
\* (api.ts:172, 269, 352, 535, 969, 1028), on its error the catch runs
OpResolved ==
    /\ op.pc = "resolving"
    /\ rs[1].pc \in {"returned", "thrown"}
    /\ IF rs[1].pc = "returned"
         THEN op' = [op EXCEPT !.pc = "rpc", !.rpcUrl = rs[1].result,
                               !.trace = Append(op.trace, "rpc")]
         ELSE op' = RpcFailed(op, [src |-> "rpc", why |-> "no endpoints"])
    /\ Finish(1)
    /\ UNCHANGED API_KEYS

\* the RPC endpoint answered (or timed out).  The further requests of the
\* RPC variants (receipt, latest block, block timestamp, transaction count)
\* swallow their own errors and only fill optional fields.
RpcResponseEvicts(resp) ==
    /\ op.pc = "rpc"
    /\ IF ~RpcThrows(op.kind, resp)
         THEN /\ op' = RpcReturned(op, resp)
              /\ UNCHANGED resolverVars
         ELSE /\ op' = RpcFailed(op, [src |-> "rpc", why |-> resp])
              /\ rpcCache' = [c \in DOMAIN rpcCache \ {op.chain} |-> rpcCache[c]]
              /\ UNCHANGED << rs, lastGood >>
    /\ UNCHANGED API_KEYS
RpcResponse(resp) ==
    /\ op.pc = "rpc"
    /\ IF ~RpcThrows(op.kind, resp)
         THEN op' = RpcReturned(op, resp)
         ELSE op' = RpcFailed(op, [src |-> "rpc", why |-> resp])
    /\ UNCHANGED << API_KEYS, resolverVars >>

\* the fixed URL answered: the result is returned, or the error leaves the
\* operation (api.ts:291-320 has no catch, api.ts:833-835 rethrows)
DirectResponse(resp) ==
    /\ op.pc = "direct"
    /\ IF ~DirectThrows(op.kind, op.chain, resp)
         THEN op' = [op EXCEPT !.pc = "done", !.outcome = "returned",
                               !.via = "direct", !.fromMissing = (resp # "ok")]
         ELSE op' = Thrown(op, [src |-> "direct", why |-> resp])
    /\ UNCHANGED << API_KEYS, resolverVars >>

\* the endpoint probed for the operation never answers
OpProbeSilent ==
    /\ op.pc = "resolving"
    /\ ProbeSilent(1)
    /\ UNCHANGED opVars

\* the upstream of the request in flight never answers: with a timeout the
\* request is rejected when it expires, as on a transport error; without one
\* the await never settles and the operation is left there for good
OpSilent ==
    /\ op.pc \in {"api", "rpc", "direct"}
    /\ IF CallTimeout(op.kind, op.chain, op.pc) # NoTimeout
         THEN CASE op.pc = "api" -> ApiResponse("transport")
                [] op.pc = "rpc" -> RpcResponse("transport")
                [] op.pc = "direct" -> DirectResponse("transport")
         ELSE /\ op' = [op EXCEPT !.pc = "hung"]
              /\ UNCHANGED << API_KEYS, resolverVars >>

\* the caller has the result; the next operation may start
OpReset ==
    /\ op.pc = "done"
    /\ op' = IdleOp
    /\ UNCHANGED << API_KEYS, resolverVars >>

(***************************************************************************)
(* Chain detector: utils/chainDetector.ts.  A query is a sequence of       *)
(* one-character strings.                                                  *)
(***************************************************************************)
Digit == {"0", "1", "2", "3", "4", "5", "6", "7", "8", "9"}
Lower == {"a", "b", "c", "d", "e", "f", "g", "h", "i", "j", "k", "l", "m",
          "n", "o", "p", "q", "r", "s", "t", "u", "v", "w", "x", "y", "z"}
Upper == {"A", "B", "C", "D", "E", "F", "G", "H", "I", "J", "K", "L", "M",
          "N", "O", "P", "Q", "R", "S", "T", "U", "V", "W", "X", "Y", "Z"}
HexChar == Digit \cup {"a", "b", "c", "d", "e", "f"}
                 \cup {"A", "B", "C", "D", "E", "F"}
\* [a-km-zA-HJ-NP-Z1-9]
Base58 == (Lower \ {"l"}) \cup (Upper \ {"I", "O"}) \cup (Digit \ {"0"})
Space == {" "}

\* the ids of SUPPORTED_CHAINS (types/chain.ts), in the order of the list
SUPPORTED_CHAINS ==
    << "ethereum", "bitcoin", "polygon", "bsc", "solana", "avalanche",
       "arbitrum", "optimism", "tron", "cosmos", "near", "aptos", "sui" >>

Rep(ch, n) == [k \in 1..n |-> ch]
Chars(s, from) == {s[k] : k \in from..Len(s)}
StartsWith(s, prefix) ==
    /\ Len(s) >= Len(prefix)
    /\ SubSeq(s, 1, Len(prefix)) = prefix
EndsWith(s, suffix) ==
    /\ Len(s) >= Len(suffix)
    /\ SubSeq(s, Len(s) - Len(suffix) + 1, Len(s)) = suffix

\* String.prototype.trim
RECURSIVE TrimLeft(_)
TrimLeft(s) ==
    IF s # << >> /\ Head(s) \in Space THEN TrimLeft(Tail(s)) ELSE s
RECURSIVE TrimRight(_)
TrimRight(s) ==
    IF s # << >> /\ s[Len(s)] \in Space
      THEN TrimRight(SubSeq(s, 1, Len(s) - 1)) ELSE s
Trim(s) == TrimRight(TrimLeft(s))

\* /^prefix[class]{lo,hi}$/
Shape(s, prefix, class, lo, hi) ==
    /\ StartsWith(s, prefix)
    /\ (Len(s) - Len(prefix)) \in lo..hi
    /\ Chars(s, Len(prefix) + 1) \subseteq class

Match(chain, confidence, reason) ==
    [chain |-> chain, confidence |-> confidence, reason |-> reason]

\* SUPPORTED_CHAINS.find(c => c.id === id), pushed when found
Found(id, confidence, reason) ==
    IF \E k \in 1..Len(SUPPORTED_CHAINS) : SUPPORTED_CHAINS[k] = id
      THEN << Match(id, confidence, reason) >>
      ELSE << >>

\* chainDetector.ts:41-43, 55-57
IsEvmChainButTron(id) ==
    id \notin {"bitcoin", "solana", "cosmos", "near", "aptos", "sui"}
IsEvmChain(id) ==
    id \notin {"bitcoin", "solana", "cosmos", "near", "tron", "aptos", "sui"}

EachChain(chains, confidence, reason) ==
    [k \in 1..Len(chains) |-> Match(chains[k], confidence, reason)]

\* Array.prototype.sort((a, b) => b.confidence - a.confidence): stable,
\* descending
RECURSIVE InsertDesc(_, _)
InsertDesc(sorted, m) ==
    IF sorted = << >> THEN << m >>
    ELSE IF Head(sorted).confidence >= m.confidence
           THEN << Head(sorted) >> \o InsertDesc(Tail(sorted), m)
           ELSE << m >> \o sorted
RECURSIVE SortDesc(_)
SortDesc(ms) ==
    IF ms = << >> THEN << >>
    ELSE InsertDesc(SortDesc(SubSeq(ms, 1, Len(ms) - 1)), ms[Len(ms)])

\* chainDetector.ts:22-23
\*   /^[13][a-km-zA-HJ-NP-Z1-9]{25,34}$/ || /^bc1[a-z0-9]{39,59}$/
IsBitcoinAddressLegacyOnly(q) ==
    \E first \in {"1", "3"} : Shape(q, << first >>, Base58, 25, 34)
IsBitcoinAddress(q) ==
    \/ \E first \in {"1", "3"} : Shape(q, << first >>, Base58, 25, 34)
    \/ Shape(q, << "b", "c", "1" >>, Lower \cup Digit, 39, 59)

\* chainDetector.ts:21-129: what the pattern branches push, in push order
PatternMatches(q) ==
    LET btcAddr == IF IsBitcoinAddress(q)
                     THEN Found("bitcoin", 95, "bitcoin address") ELSE << >>
        btcTx   == IF Shape(q, << >>, HexChar, 64, 64)
                        /\ ~StartsWith(q, << "0", "x" >>)
                     THEN Found("bitcoin", 90, "bitcoin transaction") ELSE << >>
        evm     == SelectSeq(SUPPORTED_CHAINS, IsEvmChain)
        evmAddr == IF Shape(q, << "0", "x" >>, HexChar, 40, 40)
                     THEN EachChain(evm, 70, "evm address") ELSE << >>
        evmTx   == IF Shape(q, << "0", "x" >>, HexChar, 64, 64)
                     THEN EachChain(evm, 70, "evm transaction") ELSE << >>
        sol     == IF /\ Shape(q, << >>, Base58, 32, 44)
                      /\ ~StartsWith(q, << "0", "x" >>)
                      /\ ~(q # << >> /\ q[1] \in {"1", "3"})
                      /\ ~StartsWith(q, << "b", "c", "1" >>)
                     THEN Found("solana", 80, "solana address") ELSE << >>
        tron    == IF Shape(q, << "T" >>, Lower \cup Upper \cup (Digit \ {"0"}), 33, 33)
                     THEN Found("tron", 95, "tron address") ELSE << >>
        cosmos  == IF Shape(q, << "c", "o", "s", "m", "o", "s", "1" >>,
                            Lower \cup Digit, 38, 38)
                     THEN Found("cosmos", 95, "cosmos address") ELSE << >>
        near    == IF /\ \/ EndsWith(q, << ".", "n", "e", "a", "r" >>)
                         \/ (q # << >> /\ Chars(q, 1) \subseteq
                                            Lower \cup Digit \cup {"_", "-"})
                      /\ Len(q) < 64
                     THEN Found("near", 70, "near address") ELSE << >>
        aptos   == IF Shape(q, << "0", "x" >>, HexChar, 1, 64) /\ Len(q) < 66
                     THEN Found("aptos", 60, "aptos address") ELSE << >>
        sui     == IF Shape(q, << "0", "x" >>, HexChar, 1, 64) /\ Len(q) < 66
                     THEN Found("sui", 60, "sui address") ELSE << >>
        block   == IF q # << >> /\ Chars(q, 1) \subseteq Digit
                     THEN EachChain(SUPPORTED_CHAINS, 30, "block number")
                     ELSE << >>
    IN  btcAddr \o btcTx \o evmAddr \o evmTx \o sol \o tron
          \o cosmos \o near \o aptos \o sui \o block

\* chainDetector.ts:132-140   if (matches.length === 0) push every chain
WithFallbackUnguarded(matches) ==
    matches \o EachChain(SUPPORTED_CHAINS, 10, "unknown format")
WithFallback(matches) ==
    IF Len(matches) = 0
      THEN EachChain(SUPPORTED_CHAINS, 10, "unknown format")
      ELSE matches

\* chainDetector.ts:17-144
detectChains(query) == SortDesc(WithFallback(PatternMatches(Trim(query))))

\* chainDetector.ts:149-168
detectQueryType(query) ==
    LET q == Trim(query)
    IN  IF \/ Shape(q, << "0", "x" >>, HexChar, 64, 64)
           \/ Shape(q, << >>, HexChar, 64, 64)
          THEN "transaction"
        ELSE IF q # << >> /\ Chars(q, 1) \subseteq Digit THEN "block"
        ELSE IF Len(q) > 20 THEN "address"
        ELSE "unknown"

(***************************************************************************)
(* Speculative lookup: Home.handleSearch                                   *)
(***************************************************************************)
\* the queries typed into the search box
Queries ==
    { << "0", "x" >> \o Rep("a", 40),
      << "0", "x" >> \o Rep("a", 64),
      << "b", "c", "1", "q" >> \o Rep("x", 38),
      << "b", "c", "1", "q" >> \o Rep("0", 58),
      << "1" >> \o Rep("2", 25),
      Rep("a", 64),
      Rep("z", 64),
      << "T" >> \o Rep("R", 33),
      << "1", "2", "3", "4", "5" >>,
      << "a", "l", "i", "c", "e", ".", "n", "e", "a", "r" >>,
      << "H", "e", "l", "l", "o", " ", "W", "o", "r", "l", "d", "!" >>,
      << " ", " " >> }

\* handleSearch line 301   .slice(0, 5)
MaxCandidates == 5

\* Array.prototype.slice(0, n)
Slice(arr, n) == SubSeq(arr, 1, IF Len(arr) < n THEN Len(arr) ELSE n)

\* handleSearch 299-301
SortedChains(query) == Slice(SortDesc(detectChains(query)), MaxCandidates)

\* handleSearch 306-330: what the promise of one candidate is fulfilled with
\* once its get...Info call settled: the SearchResult, or null from the catch
CandidateValueAlways(outcome) == "result"
CandidateValue(outcome) == IF outcome = "succeeded" THEN "result" ELSE "null"

\* handleSearch 334-338: result.status === 'fulfilled' && result.value
RECURSIVE Collect(_, _, _)
Collect(settled, candidates, k) ==
    IF k > Len(settled) THEN << >>
    ELSE (IF settled[k] = "result"
            THEN << candidates[k].chain >> ELSE << >>)
         \o Collect(settled, candidates, k + 1)

VARIABLES
    search      \* the state of the Home page's search

IdleSearch ==
    [ pc |-> "idle", query |-> << >>, possibleChains |-> << >>,
      queryType |-> "unknown",
      sortedChains |-> << >>, outcomes |-> << >>, promises |-> << >>,
      results |-> << >>, isSearching |-> FALSE, showSearchResults |-> FALSE ]

\* handleSearch 282-332: an empty query closes the result list; otherwise
\* every candidate's call is started by the map and the handler awaits
\* Promise.allSettled
Submit(query) ==
    /\ search.pc = "idle"
    /\ IF Trim(query) = << >>
         THEN search' = [search EXCEPT !.showSearchResults = FALSE]
         ELSE LET sorted == SortedChains(Trim(query))
              IN  search' =
                    [search EXCEPT
                       !.pc = "waiting", !.query = Trim(query),
                       !.possibleChains = detectChains(Trim(query)),
                       !.queryType = detectQueryType(Trim(query)),
                       !.sortedChains = sorted,
                       !.outcomes = [k \in 1..Len(sorted) |-> "pending"],
                       !.promises = [k \in 1..Len(sorted) |-> "pending"],
                       !.results = << >>,
                       !.isSearching = TRUE, !.showSearchResults = TRUE]

\* the get...Info call of candidate k settles
Settle(k, outcome) ==
    /\ search.pc = "waiting"
    /\ k \in 1..Len(search.promises)
    /\ search.promises[k] = "pending"
    /\ search' = [search EXCEPT !.outcomes[k] = outcome,
                                !.promises[k] = CandidateValue(outcome)]

\* handleSearch 332-361: Promise.allSettled resolves when no promise is
\* pending; the results are collected and shown
Complete ==
    /\ search.pc = "waiting"
    /\ \A k \in 1..Len(search.promises) : search.promises[k] # "pending"
    /\ search' = [search EXCEPT
                    !.pc = "idle", !.isSearching = FALSE,
                    !.results = Collect(search.promises, search.sortedChains, 1)]

(***************************************************************************)
(* Normalization of upstream payloads: the object literals returned by the *)
(* adapters of services/api.ts.  An amount is mant * 10^exp base units, so *)
(* that a division by 10^d is exp - d; an optional member is << >> or      *)
(* << v >>.                                                                *)
(***************************************************************************)
Families ==
    {"evm", "bitcoin", "solana", "aptos", "sui", "tron", "cosmos", "near"}
\* api.ts:154-162: the families getAddressInfo has an adapter for
AddressFamilies == {"evm", "bitcoin", "solana"}

\* raw amounts: 1000000000000000000, 5000000000, 2500000 base units
RawAmounts ==
    { [mant |-> 1, exp |-> 18], [mant |-> 5, exp |-> 9], [mant |-> 25, exp |-> 5] }
\* the block time of the payload, absent while the upstream has none
UpstreamTimes == { << >>, << 50 >> }
\* readings of Date.now()
ClockTimes == {100, 200}
\* the receipt / execution result of the payload: absent, success, failure
Execs == {"none", "ok", "fail"}

RawPayloads == [exec : Execs, amount : RawAmounts, time : UpstreamTimes]

\* x / 10^d
Divide(amount, d) == [amount EXCEPT !.exp = amount.exp - d]

\* the status expression of each adapter
\*   evm     api.ts:416, 523, 599  receipt ? (status === 1 ? ...) : 'pending'
\*   solana  api.ts:641   tx.meta?.err ? 'failed' : 'success'
\*   aptos   api.ts:705   success !== undefined ? (...) : 'success'
\*   sui     api.ts:777   effects?.status?.status === 'success' ? ... : 'failed'
\*   tron    api.ts:828   ret?.[0]?.contractRet === 'SUCCESS' ? ... : 'failed'
\*   cosmos  api.ts:874   tx.code === 0 ? 'success' : 'failed'
\*   near    api.ts:930   status?.SuccessValue !== undefined ? ... : 'failed'
\*   bitcoin api.ts:612-616   no status expression
StatusExpr(family, exec) ==
    CASE family = "evm" ->
            IF exec = "none" THEN << "pending" >>
            ELSE IF exec = "ok" THEN << "success" >> ELSE << "failed" >>
      [] family \in {"solana", "aptos"} ->
            IF exec = "fail" THEN << "failed" >> ELSE << "success" >>
      [] family \in {"sui", "tron", "cosmos", "near"} ->
            IF exec = "ok" THEN << "success" >> ELSE << "failed" >>
      [] family = "bitcoin" -> << >>

\* the status member of the upstream payload itself, which `...tx`
\* (api.ts:931) and `...response.data` (api.ts:614) copy into the result
\* after the computed member: NEAR's result.status object, Blockstream's
\* status object.  "raw" stands for such an object.
OwnStatus(family, exec) ==
    CASE family = "near" -> IF exec = "none" THEN << >> ELSE << "raw" >>
      [] family = "bitcoin" -> << "raw" >>
      [] OTHER -> << >>

\* { status: <expr>, ...tx }: a later member replaces an earlier one
Spread(computed, own) == IF own # << >> THEN own ELSE computed

\* the divisor of the transaction value as a power of ten
\*   api.ts:403 (18), 638 (9), 693 (8), 765 (9), 813 (6), 862 (6), 917 (24);
\*   getBitcoinTransactionInfo computes no value
ValueDecimals(family) ==
    CASE family = "evm" -> << 18 >>
      [] family = "solana" -> << 9 >>
      [] family = "aptos" -> << 8 >>
      [] family = "sui" -> << 9 >>
      [] family = "tron" -> << 6 >>
      [] family = "cosmos" -> << 6 >>
      [] family = "near" -> << 24 >>
      [] family = "bitcoin" -> << >>

\* the divisor of the address balance as a power of ten
\*   api.ts:179, 253, 276 (18), 317 (9); api.ts:302 divides by nothing
BalanceDecimals(family) ==
    CASE family = "evm" -> << 18 >>
      [] family = "solana" -> << 9 >>
      [] family = "bitcoin" -> << >>

\* the timestamp member: the block time of the payload, else the clock
\*   api.ts:382-397, 479-496, 640, 704, 776, 827, 873, 929;
\*   getBitcoinTransactionInfo computes none
Timestamp(family, time, now) ==
    IF family = "bitcoin" THEN << >>
    ELSE IF time # << >> THEN time ELSE << now >>

\* the object returned by get<Family>TransactionInfo for a found transaction
NormalizeTransaction(family, raw, now) ==
    [ chain |-> family,
      status |-> Spread(StatusExpr(family, raw.exec), OwnStatus(family, raw.exec)),
      value |-> IF ValueDecimals(family) = << >>
                  THEN << >>
                  ELSE << Divide(raw.amount, ValueDecimals(family)[1]) >>,
      timestamp |-> Timestamp(family, raw.time, now) ]

\* the object returned by getEVMAddressInfo / getBitcoinAddressInfo /
\* getSolanaAddressInfo
NormalizeAddress(family, raw, now) ==
    [ chain |-> family,
      status |-> << >>,
      value |-> IF BalanceDecimals(family) = << >>
                  THEN << raw.amount >>
                  ELSE << Divide(raw.amount, BalanceDecimals(family)[1]) >>,
      timestamp |-> << >> ]

Normalize(kind, family, raw, now) ==
    IF kind = "transaction"
      THEN NormalizeTransaction(family, raw, now)
      ELSE NormalizeAddress(family, raw, now)

VARIABLE norm   \* the payload being normalized and what came out

NoOut == [chain |-> "", status |-> << >>, value |-> << >>, timestamp |-> << >>]
IdleNorm ==
    [ pc |-> "idle", kind |-> "none", family |-> "",
      raw |-> [exec |-> "none", amount |-> [mant |-> 0, exp |-> 0], time |-> << >>],
      out |-> NoOut, again |-> NoOut ]

\* an adapter normalizes the payload the upstream answered with
NormalizeOnce(kind, family, raw, now) ==
    /\ norm.pc = "idle"
    /\ norm' = [IdleNorm EXCEPT !.pc = "once", !.kind = kind, !.family = family,
                                !.raw = raw,
                                !.out = Normalize(kind, family, raw, now)]

\* the same payload is normalized a second time, at another reading of the
\* clock
NormalizeAgain(now) ==
    /\ norm.pc = "once"
    /\ norm' = [norm EXCEPT !.pc = "twice",
                            !.again = Normalize(norm.kind, norm.family, norm.raw, now)]

NormalizeReset ==
    /\ norm.pc \in {"once", "twice"}
    /\ norm' = IdleNorm

(***************************************************************************)
(* Analytics: BlockchainAPI.getAnalyticsData (services/api.ts) and the     *)
(* Analytics page's calculateMetrics.  A JavaScript number is a fraction   *)
(* num/den in lowest terms; den = 0 stands for the values that are not     *)
(* finite: 1/0 is Infinity and 0/0 is NaN.  The members of a sampled       *)
(* transaction are integers, 0 or "" standing for a member that is absent. *)
(***************************************************************************)
RECURSIVE GCD(_, _)
GCD(a, b) == IF b = 0 THEN a ELSE GCD(b, a % b)

\* the number n/d
Num(n, d) ==
    LET abs(k) == IF k < 0 THEN -k ELSE k
        sign(k) == IF k > 0 THEN 1 ELSE IF k < 0 THEN -1 ELSE 0
    IN  IF d = 0 THEN [num |-> sign(n), den |-> 0]
        ELSE LET g == GCD(abs(n), abs(d))
             IN  [num |-> sign(d) * (n \div g), den |-> abs(d) \div g]
Whole(n) == Num(n, 1)
IsFinite(x) == x.den # 0

Add(a, b) == Num(a.num * b.den + b.num * a.den, a.den * b.den)
Sub(a, b) == Num(a.num * b.den - b.num * a.den, a.den * b.den)
Mul(a, b) == Num(a.num * b.num, a.den * b.den)
\* a / b: a positive number over 0 is Infinity, 0 over 0 is NaN
Div(a, b) == Num(a.num * b.den, a.den * b.num)
Less(a, b) == a.num * b.den < b.num * a.den
\* Math.max
Max(a, b) == IF Less(a, b) THEN b ELSE a

\* the largest k in lo..hi with k * k <= n
RECURSIVE ISqrtIn(_, _, _)
ISqrtIn(n, lo, hi) ==
    IF lo = hi THEN lo
    ELSE LET mid == (lo + hi + 1) \div 2
         IN  IF mid * mid <= n THEN ISqrtIn(n, mid, hi)
                               ELSE ISqrtIn(n, lo, mid - 1)
\* Math.sqrt, rounded down to hundredths of the denominator's unit; exact
\* when the argument is the square of a fraction
Sqrt(x) == Num(ISqrtIn(x.num * x.den * 10000, 0, 46340), x.den * 100)

\* Array.prototype.reduce((sum, x) => sum + x, 0)
RECURSIVE Sum(_)
Sum(xs) == IF xs = << >> THEN Whole(0)
           ELSE Add(Sum(SubSeq(xs, 1, Len(xs) - 1)), xs[Len(xs)])

\* Array.prototype.sort((a, b) => b - a)
RECURSIVE InsertDescending(_, _)
InsertDescending(sorted, x) ==
    IF sorted = << >> THEN << x >>
    ELSE IF Head(sorted) >= x
           THEN << Head(sorted) >> \o InsertDescending(Tail(sorted), x)
           ELSE << x >> \o sorted
RECURSIVE SortDescending(_)
SortDescending(xs) ==
    IF xs = << >> THEN << >>
    ELSE InsertDescending(SortDescending(SubSeq(xs, 1, Len(xs) - 1)), xs[Len(xs)])

\* parseFloat of a string of characters: the value of the leading decimal
\* digits, NaN when there is none
RECURSIVE ParseDigits(_, _)
ParseDigits(s, acc) ==
    IF s = << >> \/ Head(s) \notin Digit THEN acc
    ELSE LET digits == << "0", "1", "2", "3", "4", "5", "6", "7", "8", "9" >>
             value == CHOOSE d \in 0..9 : digits[d + 1] = Head(s)
         IN  ParseDigits(Tail(s), acc * 10 + value)
ParseFloat(s) ==
    IF s # << >> /\ Head(s) \in Digit
      THEN Whole(ParseDigits(s, 0))
      ELSE Num(0, 0)

\* the chains the Analytics page is opened for
AnalyticsChains == {"ethereum", "bitcoin", "solana", "tron"}

\* the transactions getLatestTransactions returns (api.ts:1332-1467): value
\* in coins, gasPrice in gwei, timestamp in seconds
Txs ==
    { [from |-> "", to |-> "", value |-> 0, gasPrice |-> 0,
       timestamp |-> 0, status |-> ""],
      [from |-> "a", to |-> "b", value |-> 20, gasPrice |-> 1,
       timestamp |-> 100, status |-> ""],
      [from |-> "b", to |-> "c", value |-> 20, gasPrice |-> 10,
       timestamp |-> 100, status |-> "failed"],
      [from |-> "a", to |-> "", value |-> 0, gasPrice |-> 1,
       timestamp |-> 160, status |-> ""],
      [from |-> "c", to |-> "a", value |-> 5, gasPrice |-> 0,
       timestamp |-> 160, status |-> "failed"],
      [from |-> "d", to |-> "d", value |-> 150, gasPrice |-> 10,
       timestamp |-> 0, status |-> ""] }

\* the longest sample
MaxSample == 3
Samples == UNION {[1..n -> Txs] : n \in 0..MaxSample}

\* chainStats.gasPrice of the page (getChainStats): absent, or its
\* ProposeGasPrice and SafeGasPrice strings
ChainStatsGas ==
    { << >>,
      << [ProposeGasPrice |-> << "2", "0" >>, SafeGasPrice |-> << "1", "8" >>] >>,
      << [ProposeGasPrice |-> << >>, SafeGasPrice |-> << >>] >>,
      << [ProposeGasPrice |-> << "N", "a", "N" >>, SafeGasPrice |-> << "1" >>] >> }

\* api.ts:1700-1711, 1785-1796
ZeroSnapshot ==
    [ totalTransactions |-> Whole(0), activeAddresses |-> Whole(0),
      newAddresses |-> Whole(0), totalVolume |-> Whole(0),
      averageGasPrice |-> Whole(0), blockProductionRate |-> Whole(0),
      networkHealth |-> Whole(0), largeTransactions |-> Whole(0),
      transactionGrowth |-> Whole(0), addressGrowth |-> Whole(0) ]

\* api.ts:1715-1719
AddressSet(transactions) ==
    {transactions[k].from : k \in {j \in 1..Len(transactions) : transactions[j].from # ""}}
      \cup {transactions[k].to : k \in {j \in 1..Len(transactions) : transactions[j].to # ""}}

\* api.ts:1722-1724
TotalVolume(transactions) ==
    Sum([k \in 1..Len(transactions) |-> Whole(transactions[k].value)])

\* api.ts:1727-1729   .map(tx => tx.gasPrice).filter(price => price && price > 0)
GasPrices(transactions) ==
    SelectSeq([k \in 1..Len(transactions) |-> transactions[k].gasPrice],
              LAMBDA price : price > 0)

\* api.ts:1730-1732
AverageGasPrice(gasPrices) ==
    IF Len(gasPrices) > 0
      THEN Div(Sum([k \in 1..Len(gasPrices) |-> Whole(gasPrices[k])]),
               Whole(Len(gasPrices)))
      ELSE Whole(0)

\* api.ts:1735-1739
LargeTransactions(chain, transactions) ==
    LET threshold == IF chain = "bitcoin" THEN 1
                     ELSE IF chain = "solana" THEN 100 ELSE 10
    IN  Cardinality({k \in 1..Len(transactions) :
                        /\ transactions[k].value # 0
                        /\ transactions[k].value >= threshold})

\* api.ts:1742-1745   .map(tx => tx.timestamp).filter(ts => ts).sort(...)
Timestamps(transactions) ==
    SortDescending(
        SelectSeq([k \in 1..Len(transactions) |-> transactions[k].timestamp],
                  LAMBDA ts : ts > 0))

\* api.ts:1747-1751
ApiBlockProductionRate(transactions) ==
    LET timestamps == Timestamps(transactions)
    IN  IF Len(timestamps) > 1
          THEN LET timeDiff == Whole(timestamps[1] - timestamps[Len(timestamps)])
               IN  Div(Whole(Len(timestamps)), Div(timeDiff, Whole(60)))
          ELSE Whole(0)

\* api.ts:1754-1756
SuccessRate(transactions) ==
    Div(Whole(Cardinality({k \in 1..Len(transactions) :
                            transactions[k].status # "failed"})),
        Whole(Len(transactions)))

\* api.ts:1758-1764
GasPriceStdDev(gasPrices, averageGasPrice) ==
    IF Len(gasPrices) > 1
      THEN Sqrt(Div(Sum([k \in 1..Len(gasPrices) |->
                            LET d == Sub(Whole(gasPrices[k]), averageGasPrice)
                            IN  Mul(d, d)]),
                    Whole(Len(gasPrices))))
      ELSE Whole(0)

\* api.ts:1765-1767
GasPriceStabilityUnclamped(gasPriceStdDev, averageGasPrice) ==
    IF Less(Whole(0), averageGasPrice)
      THEN Sub(Whole(1), Div(gasPriceStdDev, averageGasPrice))
      ELSE Whole(0)
GasPriceStability(gasPriceStdDev, averageGasPrice) ==
    IF Less(Whole(0), averageGasPrice)
      THEN Max(Whole(0), Sub(Whole(1), Div(gasPriceStdDev, averageGasPrice)))
      ELSE Whole(0)

\* api.ts:1769   (successRate * 0.7 + gasPriceStability * 0.3) * 100
NetworkHealth(successRate, gasPriceStability) ==
    Mul(Add(Mul(successRate, Num(7, 10)), Mul(gasPriceStability, Num(3, 10))),
        Whole(100))

\* the members of the snapshot the two functions compute alike
\* (api.ts:1715-1739, 1754-1782; Analytics page 83-107, 149-177)
SampleSnapshot(chain, transactions, blockProductionRate) ==
    LET gasPrices == GasPrices(transactions)
        averageGasPrice == AverageGasPrice(gasPrices)
    IN  [ totalTransactions |-> Whole(Len(transactions)),
          activeAddresses |-> Whole(Cardinality(AddressSet(transactions))),
          newAddresses |-> Whole(0),
          totalVolume |-> TotalVolume(transactions),
          averageGasPrice |-> averageGasPrice,
          blockProductionRate |-> blockProductionRate,
          networkHealth |->
              NetworkHealth(SuccessRate(transactions),
                            GasPriceStability(
                                GasPriceStdDev(gasPrices, averageGasPrice),
                                averageGasPrice)),
          largeTransactions |-> Whole(LargeTransactions(chain, transactions)),
          transactionGrowth |-> Whole(0),
          addressGrowth |-> Whole(0) ]

\* api.ts:1694-1782: what getAnalyticsData returns when getLatestTransactions
\* resolved with the sample
getAnalyticsData(chain, transactions) ==
    IF Len(transactions) = 0 THEN ZeroSnapshot
    ELSE SampleSnapshot(chain, transactions,
                        ApiBlockProductionRate(transactions))

\* Analytics page 134-145   60 / (blockTimes[selectedChain.id] || 12), the
\* block times in seconds
TableRate(chain) ==
    LET blockTimes == [ ethereum |-> Whole(12), bitcoin |-> Whole(600),
                        polygon |-> Whole(2), bsc |-> Whole(3),
                        solana |-> Num(4, 10), avalanche |-> Whole(1),
                        arbitrum |-> Num(25, 100), optimism |-> Whole(2) ]
        blockTime == IF chain \in DOMAIN blockTimes
                       THEN blockTimes[chain] ELSE Whole(12)
    IN  Div(Whole(60), blockTime)

\* Analytics page 110-130: the estimate from the spread of the timestamps
SpreadRate(transactions) ==
    LET timestamps == Timestamps(transactions)
    IN  IF Len(timestamps) > 1
          THEN LET timeDiff == Div(Whole(timestamps[1] - timestamps[Len(timestamps)]),
                                   Whole(1000))
                   ceil == (Len(transactions) + 49) \div 50
                   estimatedBlocks == IF ceil > 1 THEN ceil ELSE 1
               IN  IF Less(Whole(0), timeDiff)
                     THEN Mul(Div(Whole(estimatedBlocks), timeDiff), Whole(60))
                     ELSE Whole(0)
          ELSE Whole(0)

\* Analytics page 121-146
PageBlockProductionRate(chain, transactions) ==
    LET blockProductionRate == SpreadRate(transactions)
    IN  IF blockProductionRate = Whole(0) \/ ~IsFinite(blockProductionRate)
          THEN TableRate(chain)
          ELSE blockProductionRate

\* Analytics page 66-178; line 73 is
\*   chainStats?.gasPrice ? parseFloat(Propose || Safe || '0') : 0
calculateMetrics(chain, latestTransactions, chainStats) ==
    LET currentGasPrice ==
            IF chainStats = << >> THEN Whole(0)
            ELSE LET gasPrice == chainStats[1]
                 IN  ParseFloat(IF gasPrice.ProposeGasPrice # << >>
                                  THEN gasPrice.ProposeGasPrice
                                ELSE IF gasPrice.SafeGasPrice # << >>
                                  THEN gasPrice.SafeGasPrice
                                ELSE << "0" >>)
    IN  IF Len(latestTransactions) = 0
          THEN [ZeroSnapshot EXCEPT !.averageGasPrice = currentGasPrice]
          ELSE SampleSnapshot(chain, latestTransactions,
                              PageBlockProductionRate(chain, latestTransactions))

\* Analytics page 180   analyticsData || calculateMetrics()
Metrics(analyticsData, calculated) ==
    IF analyticsData # << >> THEN analyticsData[1] ELSE calculated

VARIABLES
    analytics   \* the Analytics page: its chain, its queries and its metrics

IdleAnalytics ==
    [ pc |-> "idle", chain |-> "", sample |-> << >>, chainStats |-> << >>,
      analyticsData |-> << >>, failed |-> FALSE, metrics |-> << >> ]

\* the page is rendered for a chain once its latestTransactions and chainStats
\* queries settled, the analytics query still loading
AnalyticsRender(chain, sample, chainStats) ==
    /\ analytics.pc = "idle"
    /\ analytics' =
          [ pc |-> "loading", chain |-> chain, sample |-> sample,
            chainStats |-> chainStats, analyticsData |-> << >>,
            failed |-> FALSE,
            metrics |-> << Metrics(<< >>,
                                   calculateMetrics(chain, sample, chainStats)) >> ]

\* getAnalyticsData resolves, getLatestTransactions having returned the sample
AnalyticsLoaded ==
    /\ analytics.pc = "loading"
    /\ LET data == getAnalyticsData(analytics.chain, analytics.sample)
       IN  analytics' =
             [analytics EXCEPT
                !.pc = "loaded",
                !.analyticsData = << data >>,
                !.metrics = << Metrics(<< data >>,
                                       calculateMetrics(analytics.chain,
                                                        analytics.sample,
                                                        analytics.chainStats)) >>]

\* api.ts:1783-1797: getLatestTransactions threw inside getAnalyticsData
AnalyticsFailed ==
    /\ analytics.pc = "loading"
    /\ analytics' =
          [analytics EXCEPT
             !.pc = "loaded",
             !.failed = TRUE,
             !.analyticsData = << ZeroSnapshot >>,
             !.metrics = << Metrics(<< ZeroSnapshot >>,
                                    calculateMetrics(analytics.chain,
                                                     analytics.sample,
                                                     analytics.chainStats)) >>]

\* another chain is selected: the queries start over
AnalyticsReset ==
    /\ analytics.pc = "loaded"
    /\ analytics' = IdleAnalytics

InitResolver ==
    /\ rpcCache = << >>
    /\ rs = [p \in Procs |-> IdleFrame]
    /\ lastGood = [c \in AllChainIds |-> << >>]

vars == << rpcCache, rs, lastGood, API_KEYS, op, search, norm, analytics >>

(***************************************************************************)
(* Spec: concurrent callers of getAvailableRpcUrl                          *)
(***************************************************************************)
Init ==
    /\ InitResolver
    /\ API_KEYS = [c \in {"ethereum"} |-> ""]
    /\ op = IdleOp
    /\ search = IdleSearch
    /\ norm = IdleNorm
    /\ analytics = IdleAnalytics

Call == \E p \in Procs, c \in ChainIds : Begin(p, c) /\ UNCHANGED << opVars, search, norm, analytics >>
Probe == \E p \in Procs, ok \in BOOLEAN : ProbeResult(p, ok) /\ UNCHANGED << opVars, search, norm, analytics >>
Return == \E p \in Procs : Finish(p) /\ UNCHANGED << opVars, search, norm, analytics >>

Silent == \E p \in Procs : ProbeSilent(p) /\ UNCHANGED << opVars, search, norm, analytics >>

Next == Call \/ Probe \/ Silent \/ Return

Spec == Init /\ [][Next]_vars

(***************************************************************************)
(* SpecOps: read operations, one after the other, sharing the cache        *)
(***************************************************************************)
InitOps ==
    /\ InitResolver
    /\ API_KEYS \in [{"ethereum"} -> Keys]
    /\ op = IdleOp
    /\ search = IdleSearch
    /\ norm = IdleNorm
    /\ analytics = IdleAnalytics

Start ==
    \/ \E k \in OpKinds, c \in OpChains, u \in BOOLEAN :
          OpStart(k, c, u) /\ UNCHANGED << search, norm, analytics >>
    \/ \E in \in FixedInputs :
          OpStart(in[1], in[2], TRUE) /\ UNCHANGED << search, norm, analytics >>
ApiAnswer == \E r \in Responses : ApiResponse(r) /\ UNCHANGED << search, norm, analytics >>
ResolveProbe == \E ok \in BOOLEAN : OpProbe(ok) /\ UNCHANGED << search, norm, analytics >>
Resolved == OpResolved /\ UNCHANGED << search, norm, analytics >>
RpcAnswer == \E r \in Responses : RpcResponse(r) /\ UNCHANGED << search, norm, analytics >>
DirectAnswer == \E r \in Responses : DirectResponse(r) /\ UNCHANGED << search, norm, analytics >>
ResolveSilent == OpProbeSilent /\ UNCHANGED << search, norm, analytics >>
NoAnswer == OpSilent /\ UNCHANGED << search, norm, analytics >>
Reset == OpReset /\ UNCHANGED << search, norm, analytics >>

NextOps ==
    \/ Start \/ ApiAnswer \/ ResolveProbe \/ Resolved \/ RpcAnswer
    \/ DirectAnswer \/ ResolveSilent \/ NoAnswer \/ Reset

SpecOps == InitOps /\ [][NextOps]_vars

(***************************************************************************)
(* SpecSearch: speculative lookups from the Home page                      *)
(***************************************************************************)
InitSearch ==
    /\ InitResolver
    /\ API_KEYS = [c \in {"ethereum"} |-> ""]
    /\ op = IdleOp
    /\ search = IdleSearch
    /\ norm = IdleNorm
    /\ analytics = IdleAnalytics

SearchSubmit ==
    \E q \in Queries : Submit(q) /\ UNCHANGED << resolverVars, opVars, norm, analytics >>
SearchSettle ==
    \E k \in 1..MaxCandidates, o \in {"succeeded", "failed"} :
        Settle(k, o) /\ UNCHANGED << resolverVars, opVars, norm, analytics >>
SearchComplete == Complete /\ UNCHANGED << resolverVars, opVars, norm, analytics >>

NextSearch == SearchSubmit \/ SearchSettle \/ SearchComplete

SpecSearch == InitSearch /\ [][NextSearch]_vars

(***************************************************************************)
(* SpecNorm: adapters normalizing upstream payloads                        *)
(***************************************************************************)
InitNorm ==
    /\ InitResolver
    /\ API_KEYS = [c \in {"ethereum"} |-> ""]
    /\ op = IdleOp
    /\ search = IdleSearch
    /\ norm = IdleNorm
    /\ analytics = IdleAnalytics

NormTransaction ==
    \E f \in Families, raw \in RawPayloads, now \in ClockTimes :
        NormalizeOnce("transaction", f, raw, now)
          /\ UNCHANGED << resolverVars, opVars, search, analytics >>
NormAddress ==
    \E f \in AddressFamilies, raw \in RawPayloads, now \in ClockTimes :
        NormalizeOnce("address", f, raw, now)
          /\ UNCHANGED << resolverVars, opVars, search, analytics >>
NormAgain ==
    \E now \in ClockTimes :
        NormalizeAgain(now) /\ UNCHANGED << resolverVars, opVars, search, analytics >>
NormReset == NormalizeReset /\ UNCHANGED << resolverVars, opVars, search, analytics >>

NextNorm == NormTransaction \/ NormAddress \/ NormAgain \/ NormReset

SpecNorm == InitNorm /\ [][NextNorm]_vars

(***************************************************************************)
(* SpecAnalytics: the Analytics page and getAnalyticsData                  *)
(***************************************************************************)
InitAnalytics ==
    /\ InitResolver
    /\ API_KEYS = [c \in {"ethereum"} |-> ""]
    /\ op = IdleOp
    /\ search = IdleSearch
    /\ norm = IdleNorm
    /\ analytics = IdleAnalytics

Render ==
    /\ analytics.pc = "idle"
    /\ \E c \in AnalyticsChains, s \in Samples, g \in ChainStatsGas :
          AnalyticsRender(c, s, g)
            /\ UNCHANGED << resolverVars, opVars, search, norm >>
Loaded == AnalyticsLoaded /\ UNCHANGED << resolverVars, opVars, search, norm >>
LoadFailed == AnalyticsFailed /\ UNCHANGED << resolverVars, opVars, search, norm >>
Reselect == AnalyticsReset /\ UNCHANGED << resolverVars, opVars, search, norm >>

NextAnalytics == Render \/ Loaded \/ LoadFailed \/ Reselect

SpecAnalytics == InitAnalytics /\ [][NextAnalytics]_vars

(***************************************************************************)
(* Properties                                                              *)
(***************************************************************************)
Pool(chainId) == FREE_RPC_ENDPOINTS[chainId]
Configured(chainId) ==
    chainId \in DOMAIN FREE_RPC_ENDPOINTS /\ Len(FREE_RPC_ENDPOINTS[chainId]) > 0
InCall(p) == rs[p].pc # "idle"
Settled(p) == rs[p].pc \in {"returned", "thrown"}
SomeOk(f) == \E j \in 1..Len(f.oks) : f.oks[j]
PoolUrls(chainId) == {Pool(chainId)[k] : k \in 1..Len(Pool(chainId))}

\* C1: for a chain id with a non-empty pool, getAvailableRpcUrl never raises
\* and what it returns is a URL of that chain's pool, whatever the probes
\* answered and whatever the cache held.
C1_ReturnsPoolUrl ==
    \A p \in Procs :
        (InCall(p) /\ Configured(rs[p].chainId)) =>
            /\ rs[p].pc # "thrown"
            /\ rs[p].pc = "returned" => rs[p].result \in PoolUrls(rs[p].chainId)

C1_Witness ==
    \E p \in Procs :
        /\ rs[p].pc = "returned"
        /\ rs[p].hadCache /\ rs[p].startIndex > 0
        /\ Len(rs[p].oks) > 1 /\ ~rs[p].oks[1] /\ SomeOk(rs[p])
        /\ rs[p].probed[Len(rs[p].probed)] < rs[p].startIndex

\* C5: sticky success.  A call that begins after a call for the same chain
\* returned endpoint k on a passing probe probes k first; when that probe
\* passes it returns pool[k], has probed nothing else and the cache is k.
C5_StickySuccess ==
    \A p \in Procs :
        (rs[p].pc \in {"probing", "returned"} /\ rs[p].after # << >>) =>
            LET k == rs[p].after[1]
            IN  /\ rs[p].startIndex = k
                /\ rs[p].probed # << >> => rs[p].probed[1] = k
                /\ (rs[p].pc = "returned" /\ rs[p].oks[1]) =>
                       /\ rs[p].result = Pool(rs[p].chainId)[k + 1]
                       /\ rs[p].probed = << k >>
                       /\ rs[p].wrote = << k >>

C5_Witness ==
    \E p \in Procs :
        /\ rs[p].pc = "returned"
        /\ rs[p].after # << >> /\ rs[p].after[1] > 0
        /\ rs[p].oks = << TRUE >>

\* C6: self-healing failover.  When the cached endpoint fails its probe the
\* call goes on through the rest of the pool: it gives up only after every
\* endpoint failed its probe, and when one passes, that endpoint is returned
\* and its index replaces the stale cached one.
C6_SelfHealing ==
    \A p \in Procs :
        (rs[p].pc = "returned" /\ rs[p].hadCache /\ Configured(rs[p].chainId)
           /\ ~rs[p].oks[1]) =>
            LET f == rs[p]
                n == Len(Pool(f.chainId))
                last == f.probed[Len(f.probed)]
            IN  IF SomeOk(f)
                  THEN /\ f.oks[Len(f.oks)]
                       /\ last # f.startIndex
                       /\ f.result = Pool(f.chainId)[last + 1]
                       /\ f.wrote = << last >>
                  ELSE {f.probed[j] : j \in 1..Len(f.probed)} = 0..(n - 1)

C6_Witness ==
    \E p \in Procs :
        /\ rs[p].pc = "returned" /\ rs[p].hadCache
        /\ rs[p].startIndex > 0
        /\ Len(rs[p].oks) = Len(Pool(rs[p].chainId))
        /\ ~rs[p].oks[1] /\ SomeOk(rs[p])
        /\ rs[p].wrote # << rs[p].startIndex >>

\* C7: when every probe of a call failed, the call returns the first URL of
\* the pool, wherever it started, and raises nothing (and caches nothing).
C7_AllFailedReturnsFirst ==
    \A p \in Procs :
        (Settled(p) /\ Configured(rs[p].chainId) /\ ~SomeOk(rs[p])) =>
            /\ rs[p].pc = "returned"
            /\ rs[p].result = Pool(rs[p].chainId)[1]
            /\ rs[p].wrote = << >>

C7_Witness ==
    \E p \in Procs :
        /\ rs[p].pc = "returned" /\ ~SomeOk(rs[p])
        /\ rs[p].startIndex > 0
        /\ Len(rs[p].oks) = Len(Pool(rs[p].chainId))

\* C8: a call for a chain id without a pool, or with an empty one, fails with
\* the no-endpoints error before any probe is sent, and the step that makes it
\* fail leaves the endpoint cache as it was.
C8_UnconfiguredState ==
    \A p \in Procs :
        (InCall(p) /\ ~Configured(rs[p].chainId)) =>
            /\ rs[p].pc = "thrown"
            /\ rs[p].probed = << >>
            /\ rs[p].wrote = << >>
            /\ rs[p].chainId \notin DOMAIN rpcCache
C8_UnconfiguredStep ==
    \A p \in Procs :
        (InCall(p)' /\ ~InCall(p) /\ ~Configured(rs'[p].chainId)) =>
            rpcCache' = rpcCache
C8_UnconfiguredChain ==
    [] C8_UnconfiguredState /\ [][C8_UnconfiguredStep]_vars

C8_Witness ==
    /\ \E p \in Procs : rs[p].pc = "thrown" /\ rs[p].chainId = "unlisted"
    /\ \E p \in Procs : rs[p].pc = "thrown" /\ rs[p].chainId = "bitcoin"
    /\ DOMAIN rpcCache # {}

\* C9: under every interleaving of concurrent calls the cache entry of a
\* chain is absent, or an index inside the pool that is the one of the most
\* recent passing probe for that chain (the last writer).
C9_CacheNeverCorrupt ==
    \A c \in AllChainIds :
        IF c \in DOMAIN rpcCache
          THEN /\ Configured(c)
               /\ rpcCache[c] \in 0..(Len(Pool(c)) - 1)
               /\ lastGood[c] = << rpcCache[c] >>
          ELSE lastGood[c] = << >>

C9_Witness ==
    \E p, q \in Procs :
        /\ p # q
        /\ rs[p].pc = "returned" /\ rs[q].pc = "returned"
        /\ rs[p].chainId = rs[q].chainId
        /\ rs[p].startIndex = rs[q].startIndex
        /\ rs[p].wrote # << >> /\ rs[q].wrote # << >>
        /\ rs[p].wrote # rs[q].wrote
        /\ rpcCache[rs[p].chainId] = rs[q].wrote[1]

\* the key the operation in progress gets from API_KEYS
OpKey == IF op.chain \in DOMAIN API_KEYS THEN API_KEYS[op.chain] ELSE ""
\* the chain of the operation has an API URL and a key-requiring API entry
KeyedApiConfigured ==
    /\ op.hasApiUrl
    /\ op.chain \in DOMAIN FREE_API_ENDPOINTS
    /\ FREE_API_ENDPOINTS[op.chain].requiresKey
ApiAnswered == op.pc # "api" /\ "api" \in {op.trace[j] : j \in 1..Len(op.trace)}

\* C2: in the three EVM operations, with an API URL, a key-requiring API
\* entry and a non-empty key, the keyed API is called first; when it succeeds
\* its result is returned with no endpoint resolved and no RPC call; the
\* endpoint is resolved and the RPC call issued only after it failed.
C2_KeyedApiFirst ==
    (op.kind \in EvmKinds /\ KeyedApiConfigured /\ OpKey # "") =>
        /\ op.trace # << >> /\ op.trace[1] = "api"
        /\ (ApiAnswered /\ op.apiError = NoError) =>
               /\ op.pc = "done" /\ op.outcome = "returned" /\ op.via = "api"
               /\ op.trace = << "api" >>
               /\ op.rpcUrl = NoResult
               /\ rs[1] = IdleFrame
        /\ Len(op.trace) > 1 =>
               /\ op.apiError # NoError
               /\ op.trace \in {<< "api", "resolve" >>, << "api", "resolve", "rpc" >>}
        /\ op.rpcUrl # NoResult => op.trace = << "api", "resolve", "rpc" >>

C2_Witness ==
    /\ op.kind \in EvmKinds /\ KeyedApiConfigured /\ OpKey # ""
    /\ op.pc = "done" /\ op.via = "api"
    /\ op.chain \in DOMAIN rpcCache

\* C3: with a keyed API configured for the chain and an empty or blank key,
\* no call to the keyed API is issued and the RPC path is taken directly.
C3_NoKeyNoApiCall ==
    (op.kind # "none" /\ KeyedApiConfigured /\ OpKey \in {"", " "}) =>
        /\ \A j \in 1..Len(op.trace) : op.trace[j] # "api"
        /\ op.trace # << >> /\ op.trace[1] = "resolve"

\* C4 (as stated): when the keyed API and the RPC fallback both failed, the
\* error raised carries the failure of the RPC attempt, the last one made.
C4_CarriesLastError ==
    (op.kind \in EvmKinds /\ op.pc = "done"
       /\ op.apiError # NoError /\ op.rpcError # NoError) =>
        /\ op.outcome = "thrown"
        /\ op.carried = op.rpcError

\* C4 (amended): when the keyed API and the RPC fallback both failed, the
\* operation raises an error that carries the failure of the keyed-API
\* attempt, the first one; the failure of the RPC attempt is dropped.
C4_CarriesApiError ==
    (op.kind \in EvmKinds /\ op.pc = "done"
       /\ op.apiError # NoError /\ op.rpcError # NoError) =>
        /\ op.outcome = "thrown"
        /\ op.carried = op.apiError
        /\ op.carried.src = "api"

C4_Witness ==
    /\ op.kind \in EvmKinds /\ op.pc = "done" /\ op.outcome = "thrown"
    /\ op.apiError.why = "error" /\ op.rpcError.why = "transport"
    /\ op.trace = << "api", "resolve", "rpc" >>

\* C10: a speculative lookup runs over at most 5 candidates, the highest
\* ranked matches of detectChains; all candidate calls are started together;
\* it completes only when every call settled; its results are exactly the
\* candidates whose call succeeded, one each, whatever the others did.
C10_SpeculativeLookup ==
    LET all == detectChains(search.query)
        cands == search.sortedChains
        n == Len(cands)
        Succeeded(k) == search.outcomes[k] = "succeeded"
    IN  search.query # << >> =>
          /\ n <= 5
          /\ n = (IF Len(all) < 5 THEN Len(all) ELSE 5)
          /\ \A k \in 1..n :
                /\ \E j \in 1..Len(all) : all[j] = cands[k]
                /\ Cardinality({j \in 1..Len(all) :
                        all[j].confidence > cands[k].confidence}) < k
          /\ Len(search.outcomes) = n /\ Len(search.promises) = n
          /\ search.pc = "waiting" => search.results = << >>
          /\ search.pc = "idle" =>
                /\ \A k \in 1..n : search.outcomes[k] # "pending"
                /\ Len(search.results) = Cardinality({k \in 1..n : Succeeded(k)})
                /\ \A c \in {cands[k].chain : k \in 1..n} :
                      Cardinality({j \in 1..Len(search.results) :
                                      search.results[j] = c})
                        = Cardinality({k \in 1..n :
                                      cands[k].chain = c /\ Succeeded(k)})

C10_Witness ==
    /\ search.query = << "0", "x" >> \o Rep("a", 40)
    /\ search.pc = "idle"
    /\ Len(search.sortedChains) = 5
    /\ Len(search.results) = 2
    /\ search.outcomes[1] = "failed" /\ search.outcomes[5] = "succeeded"

(***************************************************************************)
(* Timeouts, retries and the uniformity of the read operations             *)
(***************************************************************************)
\* C11: every outbound call (keyed API, RPC, fixed-URL REST, liveness probe)
\* carries a timeout whose expiry fails the call, so no getAvailableRpcUrl
\* call and no read operation is ever left waiting for good on an upstream
\* that never answers.
C11_EveryCallCompletes ==
    /\ \A p \in Procs : rs[p].pc # "hung"
    /\ op.pc # "hung"

\* number of occurrences of a step in the trace of the operation
Count(trace, step) == Cardinality({j \in 1..Len(trace) : trace[j] = step})

\* C12: no retry inside one read operation: the keyed API is attempted at
\* most once, getAvailableRpcUrl is called at most once, the RPC-native call
\* is sent at most once, and once that call has failed (or timed out) the
\* operation is over with an error.
C12_NoRetry ==
    /\ Count(op.trace, "api") <= 1
    /\ Count(op.trace, "resolve") <= 1
    /\ Count(op.trace, "rpc") <= 1
    /\ op.rpcError # NoError => op.pc = "done" /\ op.outcome = "thrown"

\* the keyed API failed, the endpoint was resolved, the RPC call timed out
C12_Witness ==
    /\ op.pc = "done"
    /\ op.trace = << "api", "resolve", "rpc" >>
    /\ op.rpcError = [src |-> "rpc", why |-> "transport"]

\* the steps the reference policy allows an operation on this chain to take
PolicySteps ==
    IF KeyedApiConfigured /\ OpKey # ""
      THEN << "api", "resolve", "rpc" >>
      ELSE << "resolve", "rpc" >>

\* C13: every read operation (address, transaction, block, token) on every
\* chain takes the same three steps: the keyed API when it is configured with
\* a non-empty key; otherwise, or after the API attempt failed, an endpoint
\* resolved from the pool and the RPC call; an error only after the RPC path
\* failed as well.
C13_UniformThreeSteps ==
    op.kind # "none" =>
        /\ Len(op.trace) <= Len(PolicySteps)
        /\ \A j \in 1..Len(op.trace) : op.trace[j] = PolicySteps[j]
        /\ (Len(op.trace) > 1 /\ op.trace[1] = "api") => op.apiError # NoError
        /\ op.outcome = "thrown" => op.rpcError # NoError

(***************************************************************************)
(* Normalized values                                                       *)
(***************************************************************************)
\* C14: for every chain family the transaction returned by
\* getTransactionInfo has a status that is one of success, failed, pending,
\* and a transaction without a receipt or execution result is pending,
\* never failed.
C14_StatusEnum ==
    (norm.kind = "transaction" /\ norm.pc # "idle") =>
        /\ norm.out.status \in {<< "success" >>, << "failed" >>, << "pending" >>}
        /\ norm.raw.exec = "none" => norm.out.status = << "pending" >>

\* C15: every normalized amount is the raw amount divided by the divisor of
\* its chain exactly once: 10^18 EVM, 10^9 Solana, 10^8 Bitcoin and Aptos,
\* 10^6 Tron, 10^24 NEAR; 1000000000000000000 wei is 1 and 5000000000
\* lamports are 5.
C15_DividedOnce ==
    LET decimals == [f \in {"evm", "solana", "bitcoin", "aptos", "tron", "near"} |->
                        CASE f = "evm" -> 18
                          [] f = "solana" -> 9
                          [] f \in {"bitcoin", "aptos"} -> 8
                          [] f = "tron" -> 6
                          [] f = "near" -> 24]
    IN  (norm.pc # "idle" /\ norm.family \in DOMAIN decimals
           /\ norm.out.value # << >>) =>
            /\ norm.out.value[1].mant = norm.raw.amount.mant
            /\ norm.out.value[1].exp = norm.raw.amount.exp - decimals[norm.family]
            /\ (norm.family = "evm" /\ norm.raw.amount = [mant |-> 1, exp |-> 18])
                  => norm.out.value[1] = [mant |-> 1, exp |-> 0]
            /\ (norm.family = "solana" /\ norm.raw.amount = [mant |-> 5, exp |-> 9])
                  => norm.out.value[1] = [mant |-> 5, exp |-> 0]

\* C19: normalizing the same raw payload twice, at two readings of the
\* clock, yields the same normalized value; no member depends on the time
\* of the call.
C19_Deterministic == norm.pc = "twice" => norm.again = norm.out

(***************************************************************************)
(* Error outcomes of the read operations                                   *)
(***************************************************************************)
\* C16: when the upstream answers without the top-level result,
\* getAddressInfo, getTransactionInfo and getBlockInfo end with an error;
\* none returns a value built from the missing result.
C16_MissingIsNotFound ==
    (op.kind \in EvmKinds /\ op.pc = "done") =>
        /\ op.outcome = "returned" => ~op.fromMissing
        /\ op.rpcError.why = "missing" => op.outcome = "thrown"

\* the keyed API answered that the transaction or block does not exist
ApiNotFound ==
    op.kind \in {"transaction", "block"} /\ op.apiError.why = "missing"

\* C17 (as stated): a not-found answer of the keyed API is terminal: the
\* operation ends with that error and neither resolves an RPC endpoint nor
\* repeats the lookup through the pool.
C17_NotFoundTerminal ==
    ApiNotFound =>
        /\ op.pc = "done" /\ op.outcome = "thrown"
        /\ op.trace = << "api" >>

\* C17 (amended): a not-found answer of the keyed API is handled as any
\* other failure of the API: an endpoint is resolved and the lookup repeated
\* once through it; the RPC result is returned when that succeeds, and the
\* operation ends with the API's not-found error only when the RPC path
\* failed too.  A not-found answer of the RPC endpoint ends the operation.
C17_NotFoundFallsBack ==
    ApiNotFound =>
        /\ Len(op.trace) >= 2
        /\ op.trace[1] = "api" /\ op.trace[2] = "resolve"
        /\ Count(op.trace, "rpc") <= 1
        /\ (op.pc = "done" /\ op.outcome = "returned") =>
              op.via = "rpc" /\ op.trace = << "api", "resolve", "rpc" >>
        /\ (op.pc = "done" /\ op.outcome = "thrown") =>
              op.rpcError # NoError /\ op.carried = op.apiError
        /\ op.rpcError.why = "missing" => op.pc = "done" /\ op.outcome = "thrown"

\* the API said not found, the endpoint of the pool had the transaction
C17_Witness ==
    /\ ApiNotFound
    /\ op.pc = "done" /\ op.outcome = "returned" /\ op.via = "rpc"

\* the keyed API answered with an explicit rejection
ApiRejected == op.kind \in EvmKinds /\ op.apiError.why = "error"

\* C18 (as stated): when the keyed API rejects the key, the operation ends
\* with an outcome that tells the rejection apart; it is not absorbed by a
\* fallback to the pool that returns a normal result.
C18_RejectionSurfaced ==
    (ApiRejected /\ op.pc = "done") =>
        /\ op.outcome = "thrown"
        /\ op.carried = op.apiError

\* C18 (amended): when the keyed API rejects the key, the EVM operations
\* fall back to the pool as after any other API failure and return the RPC
\* result as a normal result; the rejection reaches the caller only as the
\* message of the error raised when the RPC path failed too.
C18_RejectionFallsBack ==
    ApiRejected =>
        /\ Len(op.trace) >= 2
        /\ op.trace[1] = "api" /\ op.trace[2] = "resolve"
        /\ (op.pc = "done" /\ op.outcome = "returned") =>
              /\ op.via = "rpc" /\ op.trace = << "api", "resolve", "rpc" >>
              /\ op.carried = NoError
        /\ (op.pc = "done" /\ op.outcome = "thrown") =>
              op.rpcError # NoError /\ op.carried = op.apiError

\* the key was rejected and the caller got a normal result from the pool
C18_Witness ==
    /\ ApiRejected
    /\ op.pc = "done" /\ op.outcome = "returned" /\ op.via = "rpc"
    /\ ~op.fromMissing

(***************************************************************************)
(* Detector                                                                *)
(***************************************************************************)
\* "0x" followed by 40 characters "a"
EvmAddressInput == << "0", "x" >> \o Rep("a", 40)

\* C20: for the input "0x" followed by 40 "a", detectChains returns one
\* match for each configured EVM-family chain, each with confidence 0.70,
\* and no match for Bitcoin, Solana or Tron.
C20_EvmAddressMatches ==
    search.query = EvmAddressInput =>
        LET m == search.possibleChains
            Of(c) == {j \in 1..Len(m) : m[j].chain = c}
            configured == {SUPPORTED_CHAINS[k] : k \in 1..Len(SUPPORTED_CHAINS)}
            evm == configured \ {"bitcoin", "solana", "tron", "cosmos",
                                 "near", "aptos", "sui"}
        IN  /\ \A c \in evm :
                  /\ Cardinality(Of(c)) = 1
                  /\ \A j \in Of(c) : m[j].confidence = 70
            /\ \A c \in {"bitcoin", "solana", "tron"} : Of(c) = {}

\* the lookup for that input is under way, with the matches of the detector
C20_Witness ==
    /\ search.query = EvmAddressInput
    /\ search.pc = "waiting"
    /\ Len(search.possibleChains) > 0

\* the query has bech32 shape and starts with "bc1q"
IsBc1qInput(q) ==
    /\ Shape(q, << "b", "c", "1" >>, Lower \cup Digit, 39, 59)
    /\ q[4] = "q"

\* C21 (as stated): for an input of bech32 shape starting with "bc1q",
\* detectChains returns exactly one match, Bitcoin with confidence 0.95, and
\* no match for any other chain.
C21_OnlyBitcoin ==
    (search.pc = "waiting" /\ IsBc1qInput(search.query)) =>
        /\ Len(search.possibleChains) = 1
        /\ search.possibleChains[1].chain = "bitcoin"
        /\ search.possibleChains[1].confidence = 95

\* C21 (amended): for an input of bech32 shape starting with "bc1q",
\* detectChains returns the Bitcoin match with confidence 0.95 first and
\* exactly one more match, NEAR with confidence 0.70 (the input is lower-case
\* alphanumeric and shorter than 64 characters); no other chain is matched.
C21_BitcoinThenNear ==
    (search.pc = "waiting" /\ IsBc1qInput(search.query)) =>
        LET m == search.possibleChains
        IN  /\ Len(m) = 2
            /\ m[1].chain = "bitcoin" /\ m[1].confidence = 95
            /\ m[2].chain = "near" /\ m[2].confidence = 70

\* the longest input of that shape: bc1q and 58 more characters
C21_Witness ==
    /\ search.pc = "waiting"
    /\ IsBc1qInput(search.query)
    /\ Len(search.query) = 62
    /\ Len(search.possibleChains) > 0

\* no chain id occurs twice in the list of matches
DistinctChains(ms) ==
    \A j, k \in 1..Len(ms) : ms[j].chain = ms[k].chain => j = k

\* C22: for every input detectChains emits at most one match per chain, so
\* the candidates of a speculative lookup are distinct chains.
C22_OneMatchPerChain ==
    /\ DistinctChains(search.possibleChains)
    /\ DistinctChains(search.sortedChains)

\* C23: for an input that matches none of the patterns detectChains returns
\* exactly one match per configured chain, each with confidence 0.10, and a
\* match of confidence 0.10 is returned for no other input.
C23_FallbackOnlyWhenNoPattern ==
    search.pc = "waiting" =>
        LET m == search.possibleChains
            none == PatternMatches(Trim(search.query)) = << >>
            configured == {SUPPORTED_CHAINS[k] : k \in 1..Len(SUPPORTED_CHAINS)}
        IN  /\ none =>
                  /\ Len(m) = Len(SUPPORTED_CHAINS)
                  /\ \A c \in configured :
                        Cardinality({j \in 1..Len(m) : m[j].chain = c}) = 1
                  /\ \A j \in 1..Len(m) : m[j].confidence = 10
            /\ ~none => \A j \in 1..Len(m) : m[j].confidence # 10

\* an input outside every pattern is being looked up: 64 lower-case letters,
\* too long for the NEAR branch and not hexadecimal
C23_Witness ==
    /\ search.pc = "waiting"
    /\ search.query = Rep("z", 64)
    /\ Len(search.possibleChains) = Len(SUPPORTED_CHAINS)
    /\ search.possibleChains[1].confidence = 10

(***************************************************************************)
(* Analytics snapshot                                                      *)
(***************************************************************************)
AllFinite(snapshot) == \A f \in DOMAIN snapshot : IsFinite(snapshot[f])

\* C24: every field of the snapshot returned by getAnalyticsData, which is
\* the snapshot the page then shows, is a finite number for every sample, a
\* sample whose transactions carry one and the same timestamp and a sample
\* without gas prices included.
C24_SnapshotFinite ==
    analytics.pc = "loaded" =>
        /\ AllFinite(analytics.analyticsData[1])
        /\ AllFinite(analytics.metrics[1])

\* the sample has more than one timestamp and a positive spread between the
\* newest and the oldest
HasSpread(sample) ==
    LET timestamps == Timestamps(sample)
    IN  Len(timestamps) > 1 /\ timestamps[1] > timestamps[Len(timestamps)]

\* C25: for a sample with more than one timestamp and a positive spread,
\* blockProductionRate is the estimate from that spread; otherwise it is the
\* rate of the static table of average block times for the chain.  This is
\* so for the metrics calculateMetrics computes and for the snapshot
\* getAnalyticsData returns.
C25_RateFromSpreadOrTable ==
    /\ (analytics.pc = "loading" /\ analytics.sample # << >>) =>
          analytics.metrics[1].blockProductionRate =
              IF HasSpread(analytics.sample)
                THEN SpreadRate(analytics.sample)
                ELSE TableRate(analytics.chain)
    /\ (analytics.pc = "loaded" /\ ~analytics.failed
            /\ analytics.sample # << >>) =>
          analytics.analyticsData[1].blockProductionRate =
              IF HasSpread(analytics.sample)
                THEN ApiBlockProductionRate(analytics.sample)
                ELSE TableRate(analytics.chain)

\* what the claim C26 defines: the fraction of the sample not marked failed
ClaimedSuccessRate(sample) ==
    Num(Cardinality({k \in 1..Len(sample) : sample[k].status # "failed"}),
        Len(sample))

\* the sum of f over the gas prices of the sample that are present
RECURSIVE SumPresent(_, _)
SumPresent(sample, square) ==
    IF sample = << >> THEN 0
    ELSE LET p == Head(sample).gasPrice
         IN  (IF p > 0 THEN (IF square THEN p * p ELSE p) ELSE 0)
               + SumPresent(Tail(sample), square)

\* what the claim C26 defines: max(0, 1 - stddev / mean) of the gas prices
\* that are present, 0 when their mean is 0; the variance is taken as the
\* mean of the squares minus the square of the mean
ClaimedStability(sample) ==
    LET n == Cardinality({k \in 1..Len(sample) : sample[k].gasPrice > 0})
        total == SumPresent(sample, FALSE)
        squares == SumPresent(sample, TRUE)
        mean == Num(total, n)
        variance == Num(n * squares - total * total, n * n)
        ratio == Div(Sqrt(variance), mean)
    IN  IF n = 0 THEN Whole(0)
        ELSE IF Less(Whole(1), ratio) THEN Whole(0)
        ELSE Sub(Whole(1), ratio)

\* C26: for every non-empty sample networkHealth is
\* 100 * (0.7 * successRate + 0.3 * gasPriceStability) and lies in [0, 100],
\* successRate being the fraction of the sample not marked failed and
\* gasPriceStability max(0, 1 - stddev / mean) of the gas prices present, 0
\* when there is none.
C26_NetworkHealth ==
    (analytics.pc = "loaded" /\ ~analytics.failed /\ analytics.sample # << >>) =>
        LET health == analytics.analyticsData[1].networkHealth
            s == ClaimedSuccessRate(analytics.sample)
            g == ClaimedStability(analytics.sample)
        IN  /\ health = Mul(Whole(100),
                            Add(Mul(Num(7, 10), s), Mul(Num(3, 10), g)))
            /\ IsFinite(health)
            /\ ~Less(health, Whole(0))
            /\ ~Less(Whole(100), health)

\* getAnalyticsData returned for a sample of three transactions whose gas
\* prices 1, 1 and 10 deviate by more than their mean, one of them failed
C26_Witness ==
    /\ analytics.pc = "loaded"
    /\ ~analytics.failed
    /\ Len(analytics.sample) = 3
    /\ GasPrices(analytics.sample) = << 1, 1, 10 >>
    /\ \E k \in 1..3 : analytics.sample[k].status = "failed"
    /\ analytics.analyticsData[1].networkHealth = Num(140, 3)

AllZero(snapshot) == \A f \in DOMAIN snapshot : snapshot[f] = Whole(0)

\* C27: for an empty sample the analytics aggregator, getAnalyticsData and
\* calculateMetrics alike, yields a snapshot whose every field is 0; no field
\* is NaN.
C27_EmptySampleAllZero ==
    analytics.sample = << >> =>
        /\ analytics.metrics # << >> => AllZero(analytics.metrics[1])
        /\ analytics.analyticsData # << >> => AllZero(analytics.analyticsData[1])

(***************************************************************************)
(* Probe order and the writes of the endpoint cache                        *)
(***************************************************************************)
\* C28: within one getAvailableRpcUrl call with start index s (0 when the
\* chain had no cache entry) and a pool of n endpoints, the probes are sent
\* one at a time to s, s+1, ..., s+n-1 modulo n, no index twice and at most
\* n of them; only the last probe sent can have succeeded, and then the call
\* has returned the endpoint of that probe.
C28_ProbeOrder ==
    \A p \in Procs :
        (InCall(p) /\ Configured(rs[p].chainId)) =>
            LET f == rs[p]
                endpoints == Pool(f.chainId)
                n == Len(endpoints)
                sent == Len(f.probed)
            IN  /\ sent <= n
                /\ Len(f.oks) = sent
                /\ ~f.hadCache => f.startIndex = 0
                /\ \A j \in 1..sent : f.probed[j] = (f.startIndex + (j - 1)) % n
                /\ \A j, k \in 1..sent : f.probed[j] = f.probed[k] => j = k
                /\ f.pc = "probing" => (sent = f.i /\ ~SomeOk(f))
                /\ \A j \in 1..sent :
                      f.oks[j] => /\ j = sent
                                  /\ f.pc = "returned"
                                  /\ f.result = endpoints[f.probed[j] + 1]

\* a call that began at a cached index other than 0, wrapped around the end
\* of the pool and returned on the first probe that succeeded
C28_Witness ==
    \E p \in Procs :
        LET f == rs[p]
        IN  /\ f.pc = "returned"
            /\ f.startIndex > 0
            /\ Len(f.probed) >= 2
            /\ f.probed[Len(f.probed)] < f.startIndex
            /\ f.oks[Len(f.oks)]
            /\ f.result = Pool(f.chainId)[f.probed[Len(f.probed)] + 1]

\* the step is the one of caller p's call for the chain at which a probe has
\* just succeeded, and the entry of the chain is now the index probed
SetBySuccessfulProbe(p, chainId) ==
    /\ rs[p].pc = "probing"
    /\ rs[p].chainId = chainId
    /\ rs'[p].pc = "returned"
    /\ rs'[p].oks # << >>
    /\ rs'[p].oks[Len(rs'[p].oks)]
    /\ CacheGet(rpcCache', chainId) = << rs'[p].probed[Len(rs'[p].probed)] >>

\* C29: the cache entry of a chain changes only at the step of a
\* getAvailableRpcUrl call for that chain at which a probe has just
\* succeeded, and only to the index of the endpoint probed; a call for
\* another chain, a call whose probes all failed and a call for a chain
\* without a pool leave every entry as it was.
C29_CacheWrittenOnlyOnSuccess ==
    [][ \A c \in AllChainIds :
          CacheGet(rpcCache', c) # CacheGet(rpcCache, c) =>
              \E p \in Procs : SetBySuccessfulProbe(p, c) ]_vars

\* the cache holds an entry for one chain while a call for a chain without a
\* pool has thrown and a call for another chain has found every endpoint down
C29_Witness ==
    /\ DOMAIN rpcCache # {}
    /\ \E p, q \in Procs :
          /\ rs[p].pc = "thrown"
          /\ rs[q].pc = "returned" /\ ~SomeOk(rs[q])
          /\ rs[q].chainId \notin DOMAIN rpcCache

\* C30: a failed RPC-native call never changes the endpoint cache, and an
\* operation that finds index k cached for its chain and whose probe of
\* pool[k] passes sends its call to pool[k] and leaves the cache at k: after
\* a failed call to pool[k] every later operation for the chain goes to
\* pool[k] again for as long as pool[k] passes the probe, whatever the other
\* endpoints of the pool would answer.
C30_FailedCallKeepsEndpoint ==
    [][ /\ (op.pc = "rpc" /\ op'.pc = "done" /\ op'.outcome = "thrown") =>
              rpcCache' = rpcCache
        /\ (/\ op.pc = "resolving"
            /\ op.chain \in DOMAIN rpcCache
            /\ rs[1].pc = "probing" /\ rs[1].i = 0
            /\ rs'[1].pc = "returned" /\ rs'[1].oks = << TRUE >>) =>
              /\ rs'[1].result = Pool(op.chain)[rpcCache[op.chain] + 1]
              /\ rpcCache' = rpcCache ]_vars

\* the RPC call of an operation to the cached endpoint pool[k], k > 0, has
\* just failed and the cache still holds k
C30_Witness ==
    /\ op.pc = "done" /\ op.outcome = "thrown"
    /\ op.rpcError.src = "rpc" /\ op.rpcError.why = "transport"
    /\ op.chain \in DOMAIN rpcCache
    /\ rpcCache[op.chain] > 0
    /\ op.rpcUrl = Pool(op.chain)[rpcCache[op.chain] + 1]

====
